---------------------------- MODULE Spec2Model ----------------------------
(***************************************************************************)
(* Policy-value network of training/model.py: the five sub-networks and    *)
(* their forward pass, the graph manifest builder, and the JSON weight     *)
(* codec (export_weights / load_weights).                                  *)
(*                                                                         *)
(* Tensors hold small integers (a fixed-point stand-in for float32); the   *)
(* layer widths are scaled down from 501/512/256/128/64/54.                *)
(***************************************************************************)
EXTENDS Integers, Sequences, FiniteSets, TLC

(* ------------------------------ bounds -------------------------------- *)
\* scaled-down layer widths (model.py: 501, 54, 512, 256, 128, 64, 128, 128)
STATE_SIZE == 2
ACTION_SIZE == 2
StateHidden == 2
StateEmbed == 2
ActionHidden == 2
ActionEmbed == 1
ScorerHidden == 2
ValueHidden == 2
\* seeds of the pseudo-random generator that fills parameters and inputs
MaxSeed == 2
\* keys an archive on disk may lack, and the versions it may carry
MaxDrop == 1
MaxVersion == 3
\* inference inputs: batch size and padded number of actions
MaxBatch == 2
MaxActions == 2
\* value-head variants: number of layers
MaxHeadLayers == 5
\* fixed-point precision of normalization and of the exponential
NormScale == 4
ExpBits == 6

VARIABLES
    model,            \* the exporting PolicyValueNetwork (its modules and tensors)
    target,           \* the PolicyValueNetwork that load_weights fills
    before,           \* target as it was when load_weights was called
    exported,         \* the file written by export_weights
    loaded,           \* the file read by the last load_weights
    result,           \* how the last load_weights ended
    log,              \* lines printed so far
    graph,            \* the last manifest returned by _build_graph_manifest
    inputs,           \* arguments of the last forward / get_policy_and_value
    outputs           \* what that call returned

vars == <<model, target, before, exported, loaded, result, log, graph, inputs, outputs>>

\* a variable that holds nothing yet
None == [none |-> TRUE]
NoResult == "none"

(* ------------------------- sequences and tensors ----------------------- *)
Range(s) == {s[i] : i \in DOMAIN s}

\* a tensor built by a comprehension, held as its computed elements
Tensor(f) == <<>> @@ f

RECURSIVE SumSeq(_)
SumSeq(s) == IF s = <<>> THEN 0 ELSE s[1] + SumSeq(Tail(s))

RECURSIVE Flatten(_)
\* reshape(-1, d) of a (batch, n, d) tensor: the rows of each item, in order
Flatten(t) == IF t = <<>> THEN <<>> ELSE t[1] \o Flatten(Tail(t))

\* variant: the flat sequence read column by column
UnflattenColumnMajor(flat, batch, n) ==
    Tensor([b \in 1..batch |-> [a \in 1..n |-> flat[(a - 1) * batch + b]]])

\* reshape(batch, n) of a flat sequence of batch * n entries
Unflatten(flat, batch, n) ==
    Tensor([b \in 1..batch |-> [a \in 1..n |-> flat[(b - 1) * n + a]]])

\* numpy .T of a 2-D array
Transpose(m) ==
    Tensor([j \in 1..Len(m[1]) |-> [i \in 1..Len(m) |-> m[i][j]]])

\* torch.manual_seed / default initialisation: a deterministic value per
\* (seed, tensor, row, column), different at (i, j) and (j, i)
Rand(seed, salt, i, j) == ((seed * 7 + salt * 11 + i * 3 + j) % 5) - 2

(* ------------------------------ modules -------------------------------- *)
\* nn.Linear(in, out): weight is (out, in), bias is (out)
Linear(name, in, out, seed, salt) ==
    [name |-> name, type |-> "Linear",
     weight |-> [o \in 1..out |-> [i \in 1..in |-> Rand(seed, salt, o, i)]],
     bias |-> [o \in 1..out |-> Rand(seed, salt + 1, o, 0)]]

\* nn.LayerNorm(dim): weight (scale) and bias (shift) are (dim); a freshly
\* constructed one has scale 1 and shift 0, a trained one anything
LayerNorm(name, dim, seed, salt, trained) ==
    [name |-> name, type |-> "LayerNorm",
     weight |-> [d \in 1..dim |-> IF trained THEN Rand(seed, salt, d, 1) ELSE 1],
     bias |-> [d \in 1..dim |-> IF trained THEN Rand(seed, salt + 1, d, 2) ELSE 0]]

\* the children of each sub-network, in the order __init__ registers them
StateEncoder(seed, salt, trained) ==
    << Linear("fc1", STATE_SIZE, StateHidden, seed, salt),
       LayerNorm("ln1", StateHidden, seed, salt + 2, trained),
       Linear("fc2", StateHidden, StateEmbed, seed, salt + 4),
       LayerNorm("ln2", StateEmbed, seed, salt + 6, trained) >>

ActionEncoder(seed, salt, trained) ==
    << Linear("fc1", ACTION_SIZE, ActionHidden, seed, salt),
       LayerNorm("ln1", ActionHidden, seed, salt + 2, trained),
       Linear("fc2", ActionHidden, ActionEmbed, seed, salt + 4) >>

ActionScorer(seed, salt, trained) ==
    << Linear("fc1", StateEmbed + ActionEmbed, ScorerHidden, seed, salt),
       LayerNorm("ln1", ScorerHidden, seed, salt + 2, trained),
       Linear("fc2", ScorerHidden, 1, seed, salt + 4) >>

ValueHead(seed, salt) ==
    << Linear("fc1", StateEmbed, ValueHidden, seed, salt),
       Linear("fc2", ValueHidden, 1, seed, salt + 2) >>

ComponentNames ==
    <<"state_encoder", "value_state_encoder", "action_encoder",
      "action_scorer", "value_head">>

PolicyValueNetwork(seed, trained) ==
    [state_encoder |-> StateEncoder(seed, 0, trained),
     value_state_encoder |-> StateEncoder(seed, 8, trained),
     action_encoder |-> ActionEncoder(seed, 16, trained),
     action_scorer |-> ActionScorer(seed, 22, trained),
     value_head |-> ValueHead(seed, 28)]

\* component.named_modules(): the component itself under the name '', then
\* its children in registration order
NamedModules(component) ==
    << [name |-> "", type |-> "Module"] >> \o component

\* attribute access model.<component>.<name>
Sub(net, component, name) ==
    CHOOSE m \in Range(net[component]) : m.name = name


(* --------------------------- layer primitives -------------------------- *)
Max(a, b) == IF a >= b THEN a ELSE b
Min(a, b) == IF a <= b THEN a ELSE b

\* floor of the square root
Isqrt(n) == CHOOSE r \in 0..n : r * r <= n /\ n < (r + 1) * (r + 1)

\* nn.Linear.forward on a batch of rows: x @ weight.T + bias
LinearApply(m, X) ==
    Tensor([r \in DOMAIN X |->
        [o \in DOMAIN m.weight |->
            SumSeq([i \in DOMAIN X[r] |-> m.weight[o][i] * X[r][i]]) + m.bias[o]]])

\* nn.LayerNorm.forward on a batch of rows: each row is centred and divided
\* by its own standard deviation (+ eps), then scaled and shifted.
\* Fixed point: dev = n * (x - mean), spread = n * std, eps = 1.
LayerNormApply(m, X) ==
    Tensor([r \in DOMAIN X |->
        LET n == Len(X[r])
            total == SumSeq(X[r])
            dev == [i \in 1..n |-> n * X[r][i] - total]
            spread == Isqrt(SumSeq([i \in 1..n |-> dev[i] * dev[i]]) \div n)
        IN  [i \in 1..n |->
                ((NormScale * dev[i]) \div (spread + 1)) * m.weight[i] + m.bias[i]]])

\* F.relu
Relu(X) == Tensor([r \in DOMAIN X |-> [i \in DOMAIN X[r] |-> Max(0, X[r][i])]])

\* torch.tanh: odd, saturating at +-1 (fixed point: +-NormScale)
Tanh(X) ==
    Tensor([r \in DOMAIN X |->
        [i \in DOMAIN X[r] |-> Max(0 - NormScale, Min(NormScale, X[r][i]))]])

\* self.<name> inside a sub-network
Child(component, name) == CHOOSE m \in Range(component) : m.name = name

(* ------------------------ sub-network forward -------------------------- *)
StateEncoderForward(enc, x) ==
    LET x1 == Relu(LayerNormApply(Child(enc, "ln1"), LinearApply(Child(enc, "fc1"), x)))
        x2 == Relu(LayerNormApply(Child(enc, "ln2"), LinearApply(Child(enc, "fc2"), x1)))
    IN  x2

ActionEncoderForward(enc, x) ==
    LET x1 == Relu(LayerNormApply(Child(enc, "ln1"), LinearApply(Child(enc, "fc1"), x)))
        x2 == LinearApply(Child(enc, "fc2"), x1)
    IN  x2

ActionScorerForward(scorer, state_embed, action_embed) ==
    LET x0 == Tensor([r \in DOMAIN state_embed |-> state_embed[r] \o action_embed[r]])
        x1 == Relu(LayerNormApply(Child(scorer, "ln1"), LinearApply(Child(scorer, "fc1"), x0)))
        x2 == LinearApply(Child(scorer, "fc2"), x1)
    IN  [r \in DOMAIN x2 |-> x2[r][1]]

ValueHeadForward(head, x) ==
    LET x1 == Relu(LinearApply(Child(head, "fc1"), x))
        x2 == Tanh(LinearApply(Child(head, "fc2"), x1))
    IN  [r \in DOMAIN x2 |-> x2[r][1]]

(* --------------------------- scores and policy ------------------------- *)
\* a float that may be -inf or nan
Fin(v) == [kind |-> "fin", v |-> v]
NegInf == [kind |-> "-inf", v |-> 0]

\* variant: padded positions filled with 0 instead of -inf
MaskedFillZero(scores, action_mask) ==
    [b \in DOMAIN scores |->
        [a \in DOMAIN scores[b] |->
            IF action_mask[b][a] = 0 THEN Fin(0) ELSE Fin(scores[b][a])]]

\* scores.masked_fill(action_mask == 0, float('-inf'))
MaskedFill(scores, action_mask) ==
    [b \in DOMAIN scores |->
        [a \in DOMAIN scores[b] |->
            IF action_mask[b][a] = 0 THEN NegInf ELSE Fin(scores[b][a])]]

RECURSIVE Pow2(_)
Pow2(k) == IF k = 0 THEN 1 ELSE 2 * Pow2(k - 1)

\* exp of a difference d <= 0 to the row maximum, in fixed point (base 2):
\* 1 at d = 0, smaller below, underflowing to 0; exp(-inf) is exactly 0
Exp(d) == IF d < 0 - ExpBits THEN 0 ELSE Pow2(ExpBits + d)

\* F.softmax(scores, dim=-1): per row exp(x - max) / sum; a row of -inf
\* only has max = -inf and (-inf) - (-inf) = nan everywhere.
\* A probability is the fraction num / den; nan is 0 / 0.
Softmax(scores) ==
    [b \in DOMAIN scores |->
        LET row == scores[b]
            finite == {a \in DOMAIN row : row[a].kind = "fin"}
        IN  IF finite = {}
            THEN [a \in DOMAIN row |-> [num |-> 0, den |-> 0]]
            ELSE LET top == CHOOSE v \in {row[a].v : a \in finite} :
                                \A a \in finite : row[a].v <= v
                     e == [a \in DOMAIN row |->
                            IF row[a].kind = "fin" THEN Exp(row[a].v - top) ELSE 0]
                     total == SumSeq(e)
                 IN  [a \in DOMAIN row |-> [num |-> e[a], den |-> total]]]

(* ----------------------- PolicyValueNetwork.forward -------------------- *)
Forward(net, states, action_features, action_mask) ==
    LET state_embed == StateEncoderForward(net.state_encoder, states)
        value_state_embed == StateEncoderForward(net.value_state_encoder, states)
        batch_size == Len(action_features)
        max_actions == Len(action_features[1])
        flat_actions == Flatten(action_features)
        flat_action_embed == ActionEncoderForward(net.action_encoder, flat_actions)
        action_embed == Unflatten(flat_action_embed, batch_size, max_actions)
        state_expanded ==
            Tensor([b \in 1..batch_size |-> [a \in 1..max_actions |-> state_embed[b]]])
        flat_state == Flatten(state_expanded)
        flat_act == Flatten(action_embed)
        flat_scores == ActionScorerForward(net.action_scorer, flat_state, flat_act)
        scores == Unflatten(flat_scores, batch_size, max_actions)
        values == ValueHeadForward(net.value_head, value_state_embed)
    IN  [scores |-> MaskedFill(scores, action_mask), values |-> values]

GetPolicyAndValue(net, states, action_features, action_mask) ==
    LET fwd == Forward(net, states, action_features, action_mask)
    IN  [policy |-> Softmax(fwd.scores), values |-> fwd.values]


(* ------------------------ _build_graph_manifest ------------------------ *)
\* list.insert(pos, x) of Python, pos >= 0 counted from 0
ListInsert(l, pos, x) ==
    LET p == Min(pos, Len(l))
    IN  SubSeq(l, 1, p) \o <<x>> \o SubSeq(l, p + 1, Len(l))

RECURSIVE DiscoverLayersReluFirst(_, _)
\* variant: the relu op emitted before the layernorm op
DiscoverLayersReluFirst(mods, component_name) ==
    IF mods = <<>> THEN <<>>
    ELSE LET module == Head(mods)
             prefix == component_name \o "_" \o module.name
             ops == IF module.name = "" THEN <<>>
                    ELSE IF module.type = "Linear"
                         THEN << [op |-> "linear", key |-> prefix] >>
                    ELSE IF module.type = "LayerNorm"
                         THEN << [op |-> "relu"], [op |-> "layernorm", key |-> prefix] >>
                    ELSE <<>>
         IN  ops \o DiscoverLayersReluFirst(Tail(mods), component_name)

RECURSIVE DiscoverLayersLinearRelu(_, _)
\* variant: the relu op emitted after every linear op, none after layernorm
DiscoverLayersLinearRelu(mods, component_name) ==
    IF mods = <<>> THEN <<>>
    ELSE LET module == Head(mods)
             prefix == component_name \o "_" \o module.name
             ops == IF module.name = "" THEN <<>>
                    ELSE IF module.type = "Linear"
                         THEN << [op |-> "linear", key |-> prefix], [op |-> "relu"] >>
                    ELSE IF module.type = "LayerNorm"
                         THEN << [op |-> "layernorm", key |-> prefix] >>
                    ELSE <<>>
         IN  ops \o DiscoverLayersLinearRelu(Tail(mods), component_name)

\* the loops over state_encoder, value_state_encoder, action_encoder and
\* action_scorer: a linear op per nn.Linear, a layernorm op and then a relu
\* op per nn.LayerNorm, the module named '' skipped
RECURSIVE DiscoverLayers(_, _)
DiscoverLayers(mods, component_name) ==
    IF mods = <<>> THEN <<>>
    ELSE LET module == Head(mods)
             prefix == component_name \o "_" \o module.name
             ops == IF module.name = "" THEN <<>>
                    ELSE IF module.type = "Linear"
                         THEN << [op |-> "linear", key |-> prefix] >>
                    ELSE IF module.type = "LayerNorm"
                         THEN << [op |-> "layernorm", key |-> prefix], [op |-> "relu"] >>
                    ELSE <<>>
         IN  ops \o DiscoverLayers(Tail(mods), component_name)

\* the loop over value_head: no relu is emitted here
RECURSIVE DiscoverValueHead(_, _)
DiscoverValueHead(mods, component_name) ==
    IF mods = <<>> THEN <<>>
    ELSE LET module == Head(mods)
             prefix == component_name \o "_" \o module.name
             ops == IF module.name = "" THEN <<>>
                    ELSE IF module.type = "Linear"
                         THEN << [op |-> "linear", key |-> prefix] >>
                    ELSE IF module.type = "LayerNorm"
                         THEN << [op |-> "layernorm", key |-> prefix] >>
                    ELSE <<>>
         IN  ops \o DiscoverValueHead(Tail(mods), component_name)

\* [i for i, op in enumerate(vh) if op['op'] == 'linear'], counted from 0
RECURSIVE LinearIndicesFrom(_, _)
LinearIndicesFrom(vh, i) ==
    IF i > Len(vh) THEN <<>>
    ELSE (IF vh[i].op = "linear" THEN <<i - 1>> ELSE <<>>) \o LinearIndicesFrom(vh, i + 1)

LinearIndices(vh) == LinearIndicesFrom(vh, 1)

\* for idx in indices: vh.insert(idx + 1, {'op': 'relu'}); the indices were
\* taken before the first insertion and are used as they are
RECURSIVE InsertRelus(_, _)
InsertRelus(vh, indices) ==
    IF indices = <<>> THEN vh
    ELSE InsertRelus(ListInsert(vh, indices[1] + 1, [op |-> "relu"]), Tail(indices))

\* the fix-up of the value head: relus, then a tanh appended
FixValueHead(vh) ==
    LET linear_indices == LinearIndices(vh)
        allButLast == SubSeq(linear_indices, 1, Len(linear_indices) - 1)
    IN  InsertRelus(vh, allButLast) \o << [op |-> "tanh"] >>

BuildGraphManifest(net) ==
    [state_encoder |->
        DiscoverLayers(NamedModules(net.state_encoder), "state_encoder"),
     value_state_encoder |->
        DiscoverLayers(NamedModules(net.value_state_encoder), "value_state_encoder"),
     action_encoder |->
        DiscoverLayers(NamedModules(net.action_encoder), "action_encoder"),
     action_scorer |->
        DiscoverLayers(NamedModules(net.action_scorer), "action_scorer"),
     value_head |->
        FixValueHead(DiscoverValueHead(NamedModules(net.value_head), "value_head"))]

(* ------------------------------- JSON ---------------------------------- *)
Digit == <<"0", "1", "2", "3", "4", "5", "6", "7", "8", "9">>

RECURSIVE Digits(_)
\* the decimal digits of n >= 0, most significant first
Digits(n) == IF n < 10 THEN <<Digit[n + 1]>> ELSE Digits(n \div 10) \o <<Digit[(n % 10) + 1]>>

\* json.dump of a float holding an integer value: "-3.0", "12.0"
DumpNumber(x) ==
    (IF x < 0 THEN <<"-">> ELSE <<>>) \o Digits(IF x < 0 THEN 0 - x ELSE x) \o <<".", "0">>

DigitValue(c) == (CHOOSE d \in 1..10 : Digit[d] = c) - 1

RECURSIVE ParseDigits(_, _)
\* the value of the digits of text up to the decimal point, after acc
ParseDigits(text, acc) ==
    IF text = <<>> \/ Head(text) = "." THEN acc
    ELSE ParseDigits(Tail(text), 10 * acc + DigitValue(Head(text)))

\* json.load of a number, then float32: the text read back as a value
ParseNumber(text) ==
    IF Head(text) = "-" THEN 0 - ParseDigits(Tail(text), 0) ELSE ParseDigits(text, 0)

\* a tensor's .tolist() written to / read from the file; kernel is 2-D, the
\* others 1-D
DumpField(field, value) ==
    IF field = "kernel"
    THEN [i \in DOMAIN value |-> [j \in DOMAIN value[i] |-> DumpNumber(value[i][j])]]
    ELSE [i \in DOMAIN value |-> DumpNumber(value[i])]

ParseField(field, text) ==
    IF field = "kernel"
    THEN [i \in DOMAIN text |-> [j \in DOMAIN text[i] |-> ParseNumber(text[i][j])]]
    ELSE [i \in DOMAIN text |-> ParseNumber(text[i])]

\* json.dump(weights, f): the file's content
JsonDump(weights) ==
    [k \in DOMAIN weights |->
        IF k = "_meta" THEN weights[k]
        ELSE [f \in DOMAIN weights[k] |-> DumpField(f, weights[k][f])]]

\* json.load(f)
JsonLoad(file) ==
    [k \in DOMAIN file |->
        IF k = "_meta" THEN file[k]
        ELSE [f \in DOMAIN file[k] |-> ParseField(f, file[k][f])]]

(* ---------------------------- export_weights --------------------------- *)
\* variant: the weight matrix written as torch stores it
ExportLinearUntransposed(module) ==
    [kernel |-> module.weight, bias |-> module.bias]

ExportLinear(module) ==
    [kernel |-> Transpose(module.weight), bias |-> module.bias]

\* variant: scale and shift written under torch's attribute names
ExportLayernormTorchNames(module) ==
    [weight |-> module.weight, bias |-> module.bias]

ExportLayernorm(module) ==
    [gamma |-> module.weight, beta |-> module.bias]

\* weights[key] = entry
Put(weights, key, entry) == (key :> entry) @@ weights

RECURSIVE ExportModules(_, _, _)
\* for name, module in component.named_modules(): ...
ExportModules(weights, mods, component_name) ==
    IF mods = <<>> THEN weights
    ELSE LET module == Head(mods)
             key == component_name \o "_" \o module.name
             next == IF module.name = "" THEN weights
                     ELSE IF module.type = "Linear"
                          THEN Put(weights, key, ExportLinear(module))
                     ELSE IF module.type = "LayerNorm"
                          THEN Put(weights, key, ExportLayernorm(module))
                     ELSE weights
         IN  ExportModules(next, Tail(mods), component_name)

RECURSIVE ExportComponents(_, _, _)
\* for component_name in [...]: component = getattr(model, component_name)
ExportComponents(weights, net, names) ==
    IF names = <<>> THEN weights
    ELSE ExportComponents(
            ExportModules(weights, NamedModules(net[Head(names)]), Head(names)),
            net, Tail(names))

\* the content of the file export_weights writes
ExportWeights(net) ==
    LET meta == [version |-> 2, state_size |-> STATE_SIZE,
                 action_size |-> ACTION_SIZE, graph |-> BuildGraphManifest(net)]
    IN  JsonDump(ExportComponents("_meta" :> meta, net, ComponentNames))


(* ----------------------------- load_weights ---------------------------- *)
\* module.<attr>.data = value, for the module model.<component>.<name>
SetTensor(net, component, name, attr, value) ==
    LET mods == net[component]
    IN  [net EXCEPT ![component] =
            [i \in DOMAIN mods |->
                IF mods[i].name = name THEN [mods[i] EXCEPT ![attr] = value]
                ELSE mods[i]]]

\* weights[name][field] raises KeyError unless both are present
Has(weights, name, field) ==
    name \in DOMAIN weights /\ field \in DOMAIN weights[name]

\* load_linear: weight.data is assigned before bias is looked up
LoadLinear(net, component, module, weights, name) ==
    IF ~Has(weights, name, "kernel") THEN [net |-> net, ok |-> FALSE]
    ELSE LET net1 == SetTensor(net, component, module, "weight",
                               Transpose(weights[name].kernel))
         IN  IF ~Has(weights, name, "bias") THEN [net |-> net1, ok |-> FALSE]
             ELSE [net |-> SetTensor(net1, component, module, "bias", weights[name].bias),
                   ok |-> TRUE]

\* load_layernorm
LoadLayernorm(net, component, module, weights, name) ==
    IF ~Has(weights, name, "gamma") THEN [net |-> net, ok |-> FALSE]
    ELSE LET net1 == SetTensor(net, component, module, "weight", weights[name].gamma)
         IN  IF ~Has(weights, name, "beta") THEN [net |-> net1, ok |-> FALSE]
             ELSE [net |-> SetTensor(net1, component, module, "bias", weights[name].beta),
                   ok |-> TRUE]

Step(kind, component, module, name) ==
    [kind |-> kind, component |-> component, module |-> module, name |-> name]

\* the calls of load_weights, in program order
StateEncoderSteps ==
    << Step("linear", "state_encoder", "fc1", "state_encoder_fc1"),
       Step("layernorm", "state_encoder", "ln1", "state_encoder_ln1"),
       Step("linear", "state_encoder", "fc2", "state_encoder_fc2"),
       Step("layernorm", "state_encoder", "ln2", "state_encoder_ln2") >>

ValueStateEncoderSteps ==
    << Step("linear", "value_state_encoder", "fc1", "value_state_encoder_fc1"),
       Step("layernorm", "value_state_encoder", "ln1", "value_state_encoder_ln1"),
       Step("linear", "value_state_encoder", "fc2", "value_state_encoder_fc2"),
       Step("layernorm", "value_state_encoder", "ln2", "value_state_encoder_ln2") >>

RemainingSteps ==
    << Step("linear", "action_encoder", "fc1", "action_encoder_fc1"),
       Step("layernorm", "action_encoder", "ln1", "action_encoder_ln1"),
       Step("linear", "action_encoder", "fc2", "action_encoder_fc2"),
       Step("linear", "action_scorer", "fc1", "action_scorer_fc1"),
       Step("layernorm", "action_scorer", "ln1", "action_scorer_ln1"),
       Step("linear", "action_scorer", "fc2", "action_scorer_fc2"),
       Step("linear", "value_head", "fc1", "value_head_fc1"),
       Step("linear", "value_head", "fc2", "value_head_fc2") >>

RECURSIVE RunSteps(_, _, _)
\* the calls one after the other; the first KeyError ends them
RunSteps(net, weights, steps) ==
    IF steps = <<>> THEN [net |-> net, ok |-> TRUE]
    ELSE LET s == Head(steps)
             r == IF s.kind = "linear"
                  THEN LoadLinear(net, s.component, s.module, weights, s.name)
                  ELSE LoadLayernorm(net, s.component, s.module, weights, s.name)
         IN  IF r.ok THEN RunSteps(r.net, weights, Tail(steps)) ELSE r

FallbackNote == "  Note: value_state_encoder not found in weights, using random init"
LoadedLine == "Loaded weights from path"
ExportedLine == "Exported weights to path (graph manifest v2)"

\* variant: value_state_encoder loaded like the mandatory sub-networks
LoadWeightsStrict(net, file) ==
    LET weights == JsonLoad(file)
        r == RunSteps(net, weights,
                      StateEncoderSteps \o ValueStateEncoderSteps \o RemainingSteps)
    IN  IF ~r.ok THEN [net |-> r.net, result |-> "KeyError", printed |-> <<>>]
        ELSE [net |-> r.net, result |-> "ok", printed |-> <<LoadedLine>>]

\* load_weights(net, path) where path holds file: the network afterwards,
\* how the call ended, and what it printed
LoadWeights(net, file) ==
    LET weights == JsonLoad(file)
        s1 == RunSteps(net, weights, StateEncoderSteps)
        hasValue == "value_state_encoder_fc1" \in DOMAIN weights
        s2 == IF hasValue THEN RunSteps(s1.net, weights, ValueStateEncoderSteps)
              ELSE [net |-> s1.net, ok |-> TRUE]
        note == IF hasValue THEN <<>> ELSE <<FallbackNote>>
        s3 == RunSteps(s2.net, weights, RemainingSteps)
    IN  IF ~s1.ok THEN [net |-> s1.net, result |-> "KeyError", printed |-> <<>>]
        ELSE IF ~s2.ok THEN [net |-> s2.net, result |-> "KeyError", printed |-> note]
        ELSE IF ~s3.ok THEN [net |-> s3.net, result |-> "KeyError", printed |-> note]
        ELSE [net |-> s3.net, result |-> "ok", printed |-> note \o <<LoadedLine>>]

(* ------------------------- files found on disk ------------------------- *)
\* keys of the parameter entries of a file
ParameterKeys(file) == DOMAIN file \ {"_meta"}

ValueStateEncoderKeys ==
    {ValueStateEncoderSteps[i].name : i \in DOMAIN ValueStateEncoderSteps}

MandatoryKeys ==
    {StateEncoderSteps[i].name : i \in DOMAIN StateEncoderSteps}
        \cup {RemainingSteps[i].name : i \in DOMAIN RemainingSteps}

\* the file without the entries in keys
WithoutKeys(file, keys) == [k \in DOMAIN file \ keys |-> file[k]]

\* the file with _meta.version = v, or without the field when v = 0
WithVersion(file, v) ==
    LET meta == file["_meta"]
        newMeta == IF v = 0 THEN [f \in DOMAIN meta \ {"version"} |-> meta[f]]
                   ELSE [meta EXCEPT !["version"] = v]
    IN  [file EXCEPT !["_meta"] = newMeta]

\* what path may hold when load_weights is called: an export, possibly
\* written by an older or another exporter (entries missing, the whole
\* value_state_encoder missing, another version)
DropSets(file) ==
    {S \cup O : S \in {T \in SUBSET ParameterKeys(file) : Cardinality(T) <= MaxDrop},
                O \in {{}, ValueStateEncoderKeys}}

(* --------------------------- inference inputs -------------------------- *)
\* np.random.seed(seed); np.random.randn(...): a batch of state vectors
RandStates(seed, batch) ==
    [b \in 1..batch |-> [i \in 1..STATE_SIZE |-> Rand(seed, 40 + b, i, 0)]]

\* a batch of n action vectors per state, pairwise different within a state
RandActions(seed, batch, n) ==
    [b \in 1..batch |-> [a \in 1..n |-> [i \in 1..ACTION_SIZE |-> Rand(seed, 50 + b, a, i)]]]

\* the test case of verify_inference.py: one state, all actions valid
TestVector ==
    [states |-> RandStates(1, 1),
     action_features |-> RandActions(1, 1, MaxActions),
     action_mask |-> <<[a \in 1..MaxActions |-> 1]>>]

(* ---------------- the steps each forward method applies ---------------- *)
OnModule(kind, name) == [op |-> kind, module |-> name]
Plain(kind) == [op |-> kind]

\* x = F.relu(self.ln1(self.fc1(x))); x = F.relu(self.ln2(self.fc2(x)))
StateEncoderForwardOps ==
    << OnModule("linear", "fc1"), OnModule("layernorm", "ln1"), Plain("relu"),
       OnModule("linear", "fc2"), OnModule("layernorm", "ln2"), Plain("relu") >>

\* x = F.relu(self.ln1(self.fc1(x))); x = self.fc2(x)
ActionEncoderForwardOps ==
    << OnModule("linear", "fc1"), OnModule("layernorm", "ln1"), Plain("relu"),
       OnModule("linear", "fc2") >>

\* (after the cat) x = F.relu(self.ln1(self.fc1(x))); x = self.fc2(x)
ActionScorerForwardOps ==
    << OnModule("linear", "fc1"), OnModule("layernorm", "ln1"), Plain("relu"),
       OnModule("linear", "fc2") >>

\* x = F.relu(self.fc1(x)); x = torch.tanh(self.fc2(x))
ValueHeadForwardOps ==
    << OnModule("linear", "fc1"), Plain("relu"),
       OnModule("linear", "fc2"), Plain("tanh") >>

ForwardOps ==
    [state_encoder |-> StateEncoderForwardOps,
     value_state_encoder |-> StateEncoderForwardOps,
     action_encoder |-> ActionEncoderForwardOps,
     action_scorer |-> ActionScorerForwardOps,
     value_head |-> ValueHeadForwardOps]

(* --------------------- a generic manifest executor --------------------- *)
\* output = input . kernel + bias, kernel being (in, out)
AffineApply(entry, X) ==
    Tensor([r \in DOMAIN X |->
        [o \in DOMAIN entry.bias |->
            SumSeq([i \in DOMAIN X[r] |-> X[r][i] * entry.kernel[i][o]]) + entry.bias[o]]])

RECURSIVE Replay(_, _, _)
\* the operations of one sub-network applied in the manifest's order, with
\* the parameters the archive holds under each operation's key
Replay(ops, weights, X) ==
    IF ops = <<>> THEN X
    ELSE LET o == Head(ops)
             Y == IF o.op = "linear" THEN AffineApply(weights[o.key], X)
                  ELSE IF o.op = "layernorm"
                       THEN LayerNormApply([weight |-> weights[o.key].gamma,
                                            bias |-> weights[o.key].beta], X)
                  ELSE IF o.op = "relu" THEN Relu(X)
                  ELSE Tanh(X)
         IN  Replay(Tail(ops), weights, Y)

(* ------------------------------ actions -------------------------------- *)
Seeds == 1..MaxSeed

Init ==
    /\ model \in {PolicyValueNetwork(s, t) : s \in Seeds, t \in BOOLEAN}
    /\ target \in {PolicyValueNetwork(s, FALSE) : s \in Seeds}
    /\ before = None
    /\ exported = None
    /\ loaded = None
    /\ result = NoResult
    /\ log = <<>>
    /\ graph = None
    /\ inputs = None
    /\ outputs = None

\* export_weights(model, path)
Export ==
    /\ exported = None
    /\ exported' = ExportWeights(model)
    /\ log' = Append(log, ExportedLine)
    /\ UNCHANGED <<model, target, before, loaded, result, graph, inputs, outputs>>

\* load_weights(target, path), path holding the export or a file that lacks
\* some of its entries or carries another version
Load ==
    /\ exported # None
    /\ result = NoResult
    /\ \E d \in DropSets(exported), v \in 0..MaxVersion :
        LET file == WithVersion(WithoutKeys(exported, d), v)
            r == LoadWeights(target, file)
        IN  /\ loaded' = file
            /\ before' = target
            /\ target' = r.net
            /\ result' = r.result
            /\ log' = log \o r.printed
    /\ UNCHANGED <<model, exported, graph, inputs, outputs>>

Next == Export \/ Load

Spec == Init /\ [][Next]_vars


(* ------------------------ inference (SpecInfer) ------------------------ *)
\* every 0/1 mask of the given shape, rows without a valid action included
Masks(batch, n) == [1..batch -> [1..n -> {0, 1}]]

InitInfer ==
    /\ model \in {PolicyValueNetwork(s, TRUE) : s \in Seeds}
    /\ target = PolicyValueNetwork(1, FALSE)
    /\ before = None
    /\ exported = None
    /\ loaded = None
    /\ result = NoResult
    /\ log = <<>>
    /\ graph = None
    /\ inputs = None
    /\ outputs = None

\* model(states, action_features, action_mask)
CallForward ==
    /\ inputs = None
    /\ \E seed \in Seeds, batch \in 1..MaxBatch, n \in 1..MaxActions :
         \E mask \in Masks(batch, n) :
            LET states == RandStates(seed, batch)
                action_features == RandActions(seed, batch, n)
            IN  /\ inputs' = [call |-> "forward", states |-> states,
                              action_features |-> action_features, action_mask |-> mask]
                /\ outputs' = Forward(model, states, action_features, mask)
    /\ UNCHANGED <<model, target, before, exported, loaded, result, log, graph>>

\* model.get_policy_and_value(states, action_features, action_mask)
CallGetPolicyAndValue ==
    /\ inputs = None
    /\ \E seed \in Seeds, batch \in 1..MaxBatch, n \in 1..MaxActions :
         \E mask \in Masks(batch, n) :
            LET states == RandStates(seed, batch)
                action_features == RandActions(seed, batch, n)
            IN  /\ inputs' = [call |-> "get_policy_and_value", states |-> states,
                              action_features |-> action_features, action_mask |-> mask]
                /\ outputs' = GetPolicyAndValue(model, states, action_features, mask)
    /\ UNCHANGED <<model, target, before, exported, loaded, result, log, graph>>

NextInfer == CallForward \/ CallGetPolicyAndValue

SpecInfer == InitInfer /\ [][NextInfer]_vars

(* ------------------ value heads of any depth (SpecHead) ----------------- *)
\* a value head whose i-th child is of type types[i]: fc<i> or ln<i>
HeadVariant(types, seed, salt) ==
    [i \in DOMAIN types |->
        IF types[i] = "Linear"
        THEN Linear("fc" \o Digit[i + 1],
                    IF i = 1 THEN StateEmbed ELSE ValueHidden,
                    IF i = Len(types) THEN 1 ELSE ValueHidden, seed, salt + 2 * i)
        ELSE LayerNorm("ln" \o Digit[i + 1], ValueHidden, seed, salt + 2 * i, TRUE)]

HeadTypes == UNION {[1..k -> {"Linear", "LayerNorm"}] : k \in 1..MaxHeadLayers}

InitHead ==
    /\ model \in {[PolicyValueNetwork(s, TRUE) EXCEPT !.value_head = HeadVariant(t, s, 28)] :
                    s \in Seeds, t \in HeadTypes}
    /\ target = PolicyValueNetwork(1, FALSE)
    /\ before = None
    /\ exported = None
    /\ loaded = None
    /\ result = NoResult
    /\ log = <<>>
    /\ graph = None
    /\ inputs = None
    /\ outputs = None

\* _build_graph_manifest(model)
BuildManifest ==
    /\ graph = None
    /\ graph' = BuildGraphManifest(model)
    /\ UNCHANGED <<model, target, before, exported, loaded, result, log, inputs, outputs>>

NextHead == BuildManifest

SpecHead == InitHead /\ [][NextHead]_vars

(* ======================= properties of the codec ====================== *)
Failed == result = "KeyError"
Succeeded == result = "ok"
Called == result # NoResult

\* versions an importer knows: the one export_weights writes, and the one
\* before it
RecognizedVersions == {1, 2}

HasRecognizedVersion(file) ==
    /\ "version" \in DOMAIN file["_meta"]
    /\ file["_meta"].version \in RecognizedVersions

\* C1: for every archive whose _meta.version is unknown or absent,
\* load_weights ends in an error and no parameter of the target has changed,
\* whatever parameter keys the archive holds.
C1_UnknownVersionFailsClosed ==
    (Called /\ ~HasRecognizedVersion(loaded)) => (Failed /\ target = before)

\* every operation of the manifest, as <<sub-network, position>>
ManifestOps(g) == UNION {{<<c, i>> : i \in DOMAIN g[c]} : c \in DOMAIN g}

KeyedOps(g) == {ci \in ManifestOps(g) : "key" \in DOMAIN g[ci[1]][ci[2]]}

\* C3: in every archive written by export_weights, every manifest operation
\* that carries a key names an entry of the archive, a linear op's entry
\* holds {kernel, bias}, a layernorm op's entry holds {gamma, beta}, and every
\* entry other than _meta is referenced by exactly one manifest operation.
C3_ArchiveMatchesManifest ==
    exported # None =>
        LET g == exported["_meta"].graph
        IN  /\ \A ci \in KeyedOps(g) :
                LET o == g[ci[1]][ci[2]]
                IN  /\ o.key \in ParameterKeys(exported)
                    /\ o.op = "linear" => DOMAIN exported[o.key] = {"kernel", "bias"}
                    /\ o.op = "layernorm" => DOMAIN exported[o.key] = {"gamma", "beta"}
            /\ \A k \in ParameterKeys(exported) :
                Cardinality({ci \in KeyedOps(g) : g[ci[1]][ci[2]].key = k}) = 1

C3_Witness ==
    /\ exported # None
    /\ Cardinality(ParameterKeys(exported)) = 16
    /\ Cardinality(KeyedOps(exported["_meta"].graph)) = 16

\* the linear modules of a network, as <<sub-network, position>>
LinearModules(net) ==
    UNION {{<<c, i>> : i \in {j \in DOMAIN net[c] : net[c][j].type = "Linear"}} :
            c \in DOMAIN net}

\* C4: export followed by import into a fresh model is a round trip: every
\* parameter of the five sub-networks of the loaded model equals the
\* exporting model's, each affine weight matrix is stored transposed in the
\* archive, and the loaded model gives the same scores, value and policy.
C4_RoundTrip ==
    (Called /\ loaded = exported) =>
        /\ Succeeded
        /\ \A c \in DOMAIN model : target[c] = model[c]
        /\ \A ci \in LinearModules(model) :
             LET m == model[ci[1]][ci[2]]
             IN  ParseField("kernel", exported[ci[1] \o "_" \o m.name].kernel)
                    = Transpose(m.weight)
        /\ Forward(target, TestVector.states, TestVector.action_features,
                   TestVector.action_mask)
             = Forward(model, TestVector.states, TestVector.action_features,
                       TestVector.action_mask)
        /\ GetPolicyAndValue(target, TestVector.states, TestVector.action_features,
                             TestVector.action_mask)
             = GetPolicyAndValue(model, TestVector.states, TestVector.action_features,
                                 TestVector.action_mask)

\* a round trip that changed the fresh model, with a weight matrix that is
\* not its own transpose
C4_Witness ==
    /\ Called /\ loaded = exported /\ Succeeded
    /\ target # before
    /\ \E ci \in LinearModules(model) :
         LET w == model[ci[1]][ci[2]].weight
         IN  Len(w) = Len(w[1]) /\ Transpose(w) # w

MandatoryComponents == {"state_encoder", "action_encoder", "action_scorer", "value_head"}

MissingOnlyOptional(file) ==
    /\ MandatoryKeys \subseteq DOMAIN file
    /\ ValueStateEncoderKeys \cap DOMAIN file = {}

\* C6: importing an archive that holds every mandatory key and none of the
\* value_state_encoder keys returns normally, prints the fallback notice,
\* leaves value_state_encoder as it was before the call, and loads every
\* parameter of the four other sub-networks from the archive.
C6_MissingOptionalFallsBack ==
    (Called /\ MissingOnlyOptional(loaded)) =>
        /\ Succeeded
        /\ FallbackNote \in Range(log)
        /\ target.value_state_encoder = before.value_state_encoder
        /\ \A c \in MandatoryComponents : target[c] = model[c]

C6_Witness ==
    /\ Called /\ MissingOnlyOptional(loaded) /\ Succeeded
    /\ target.value_state_encoder # model.value_state_encoder
    /\ target.state_encoder # before.state_encoder

\* C10: whenever load_weights ends in an error, every parameter of the
\* target still has the value it had before the call.
C10_FailedImportNotApplied ==
    Failed => target = before


(* ====================== properties of the manifest ===================== *)
\* the steps of a forward method with the keys the manifest would use
Keyed(ops, component_name) ==
    [i \in DOMAIN ops |->
        IF "module" \in DOMAIN ops[i]
        THEN [op |-> ops[i].op, key |-> component_name \o "_" \o ops[i].module]
        ELSE ops[i]]

\* the executor's result for each sub-network on the test case's inputs, fed
\* as forward feeds them
ReplayMatchesForward(g, weights, net, tv) ==
    LET se == StateEncoderForward(net.state_encoder, tv.states)
        vse == StateEncoderForward(net.value_state_encoder, tv.states)
        acts == Flatten(tv.action_features)
        ae == ActionEncoderForward(net.action_encoder, acts)
        ses == Tensor([r \in DOMAIN ae |-> se[1]])
        cat == Tensor([r \in DOMAIN ae |-> ses[r] \o ae[r]])
        sc == Replay(g.action_scorer, weights, cat)
        vh == Replay(g.value_head, weights, vse)
    IN  /\ Replay(g.state_encoder, weights, tv.states) = se
        /\ Replay(g.value_state_encoder, weights, tv.states) = vse
        /\ Replay(g.action_encoder, weights, acts) = ae
        /\ [r \in DOMAIN sc |-> sc[r][1]] = ActionScorerForward(net.action_scorer, ses, ae)
        /\ [r \in DOMAIN vh |-> vh[r][1]] = ValueHeadForward(net.value_head, vse)

\* C2: for each of the five sub-networks the manifest's operation sequence is
\* exactly the sequence of affine / normalize / relu / tanh steps its forward
\* method applies, in the same order, so that an executor replaying the
\* manifest over the archive computes what forward computes.
C2_ManifestFollowsForward ==
    exported # None =>
        /\ \A c \in DOMAIN ForwardOps :
             exported["_meta"].graph[c] = Keyed(ForwardOps[c], c)
        /\ ReplayMatchesForward(exported["_meta"].graph, JsonLoad(exported),
                                model, TestVector)

\* an export of a trained model, whose normalization scales differ from 1
C2_Witness ==
    /\ exported # None
    /\ Len(exported["_meta"].graph.value_head) = 4
    /\ \E i \in 1..StateHidden : Sub(model, "state_encoder", "ln1").weight[i] # 1

Encoders == {"state_encoder", "value_state_encoder", "action_encoder"}

AffinePositions(ops) == {i \in DOMAIN ops : ops[i].op = "linear"}

LastAffine(ops) == CHOOSE i \in AffinePositions(ops) : \A j \in AffinePositions(ops) : j <= i

FollowedByNormRelu(ops, i) ==
    /\ i + 2 <= Len(ops)
    /\ ops[i + 1].op = "layernorm"
    /\ ops[i + 2].op = "relu"

FollowedByNeither(ops, i) ==
    \A j \in DOMAIN ops : j > i => ops[j].op \notin {"layernorm", "relu"}

\* the statement of the design document about one encoder's sequence
AllButLastNormalized(ops) ==
    /\ Cardinality(AffinePositions(ops)) = 2
    /\ \A i \in AffinePositions(ops) :
         IF i = LastAffine(ops) THEN FollowedByNeither(ops, i)
         ELSE FollowedByNormRelu(ops, i)

\* C7 as stated: in each encoder, two affine layers, every affine layer but
\* the last followed by normalization then relu, the last followed by
\* neither; for forward and for the manifest.
C7_LastAffineBare ==
    exported # None =>
        \A e \in Encoders :
            /\ AllButLastNormalized(ForwardOps[e])
            /\ AllButLastNormalized(exported["_meta"].graph[e])

EncoderShape(ops, e) ==
    /\ Cardinality(AffinePositions(ops)) = 2
    /\ \A i \in AffinePositions(ops) :
         IF i = LastAffine(ops) /\ e = "action_encoder" THEN FollowedByNeither(ops, i)
         ELSE FollowedByNormRelu(ops, i)

\* C7 amended: in each encoder there are two affine layers and the first is
\* followed by normalization then relu; the last affine layer of
\* action_encoder is followed by neither, and the last affine layer of
\* state_encoder and of value_state_encoder is followed by normalization then
\* relu as well; for forward and for the manifest.
C7_EncoderShape ==
    exported # None =>
        \A e \in Encoders :
            /\ EncoderShape(ForwardOps[e], e)
            /\ EncoderShape(exported["_meta"].graph[e], e)

C7_Witness ==
    /\ exported # None
    /\ Len(exported["_meta"].graph.state_encoder) = 6
    /\ Len(exported["_meta"].graph.action_encoder) = 4

\* linear, relu, ..., linear, tanh for k affine layers
ExpectedHead(k) ==
    [i \in 1..2 * k |->
        IF i = 2 * k THEN "tanh" ELSE IF i % 2 = 1 THEN "linear" ELSE "relu"]

\* C9: for a value head of k >= 1 affine layers and no normalization layer,
\* the manifest's value_head sequence has a relu right after every affine op
\* but the last, no other relu, and one tanh, right after the last affine op
\* and last of all.
C9_ValueHeadAlternates ==
    (graph # None /\ \A m \in Range(model.value_head) : m.type = "Linear") =>
        [i \in DOMAIN graph.value_head |-> graph.value_head[i].op]
            = ExpectedHead(Len(model.value_head))


(* ======================= properties of inference ====================== *)
ValidActions(mask, b) == {a \in DOMAIN mask[b] : mask[b][a] = 1}

\* every row of the batch has at least one valid action
AllRowsValid(mask) == \A b \in DOMAIN mask : ValidActions(mask, b) # {}

\* the scorer applied to one (state, action) pair on its own
PairScore(net, state, action) ==
    ActionScorerForward(net.action_scorer,
                        StateEncoderForward(net.state_encoder, <<state>>),
                        ActionEncoderForward(net.action_encoder, <<action>>))[1]

\* C5: for every action batch whose mask has a true entry, forward returns
\* -inf at exactly the masked positions and the scorer's score at every valid
\* one, and get_policy_and_value returns a distribution that is exactly 0 at
\* every masked position and sums to 1 over the valid ones (1 at the only
\* valid action when there is exactly one).
C5_MaskedScoresAndPolicy ==
    inputs # None =>
        \A b \in DOMAIN inputs.action_mask :
            LET mask == inputs.action_mask
                valid == ValidActions(mask, b)
            IN  valid # {} =>
                /\ inputs.call = "forward" =>
                     \A a \in DOMAIN mask[b] :
                        outputs.scores[b][a] =
                            IF a \in valid
                            THEN Fin(PairScore(model, inputs.states[b],
                                               inputs.action_features[b][a]))
                            ELSE NegInf
                /\ inputs.call = "get_policy_and_value" =>
                     LET row == outputs.policy[b]
                     IN  /\ \A a \in DOMAIN row : row[a].den > 0
                         /\ \A a \in DOMAIN row \ valid : row[a].num = 0
                         /\ SumSeq([a \in DOMAIN row |->
                                      IF a \in valid THEN row[a].num ELSE 0])
                                = row[1].den
                         /\ Cardinality(valid) = 1 =>
                              \A a \in valid : row[a].num = row[a].den

\* a policy over a row with one valid action and padding
C5_Witness ==
    /\ inputs # None
    /\ inputs.call = "get_policy_and_value"
    /\ \E b \in DOMAIN inputs.action_mask :
         /\ Cardinality(ValidActions(inputs.action_mask, b)) = 1
         /\ Len(inputs.action_mask[b]) >= 2
         /\ \E a \in DOMAIN outputs.policy[b] :
              outputs.policy[b][a].num = outputs.policy[b][a].den /\ outputs.policy[b][a].den > 0

Perms(n) == {p \in [1..n -> 1..n] : \A i, j \in 1..n : p[i] = p[j] => i = j}

\* every row of a (batch, n, ...) tensor reordered by p
PermuteRows(t, p) == Tensor([b \in DOMAIN t |-> [a \in DOMAIN p |-> t[b][p[a]]]])

\* C8: for a fixed state and any permutation p of the action batch (vectors
\* and mask together), forward's scores and get_policy_and_value's policy
\* are the p-permutation of the originals and the value is the same; the
\* value is a function of the state and the value path only.
C8_OrderIndependent ==
    (inputs # None /\ AllRowsValid(inputs.action_mask)) =>
        /\ \A p \in Perms(Len(inputs.action_mask[1])) :
             LET af == PermuteRows(inputs.action_features, p)
                 mk == PermuteRows(inputs.action_mask, p)
             IN  /\ inputs.call = "forward" =>
                      Forward(model, inputs.states, af, mk)
                        = [scores |-> PermuteRows(outputs.scores, p),
                           values |-> outputs.values]
                 /\ inputs.call = "get_policy_and_value" =>
                      GetPolicyAndValue(model, inputs.states, af, mk)
                        = [policy |-> PermuteRows(outputs.policy, p),
                           values |-> outputs.values]
        /\ outputs.values =
             ValueHeadForward(model.value_head,
                 StateEncoderForward(model.value_state_encoder, inputs.states))

\* a row whose valid actions got different scores, so that reordering shows
C8_Witness ==
    /\ inputs # None /\ AllRowsValid(inputs.action_mask)
    /\ inputs.call = "forward"
    /\ \E b \in DOMAIN outputs.scores :
         \E a1, a2 \in DOMAIN outputs.scores[b] :
            /\ outputs.scores[b][a1].kind = "fin"
            /\ outputs.scores[b][a2].kind = "fin"
            /\ outputs.scores[b][a1].v # outputs.scores[b][a2].v

=============================================================================
